---- MODULE Spec2Model ----
(***************************************************************************)
(* Transfer orchestration of FAST-File-Explorer (src-tauri).               *)
(*                                                                         *)
(* The model covers the three commands that start or perform a transfer    *)
(*   clone          funcs/copy.rs   copy through the rclone sidecar        *)
(*   cut            funcs/copy.rs   move: fs::rename, then (Windows) clone  *)
(*                                  and fs::remove_file                    *)
(*   transfer_file  lib.rs          copy through the rsync sidecar         *)
(* the background task each spawn starts, the event stream of the spawned  *)
(* process, the events emitted to the UI, and the file system the          *)
(* commands and the external tool act on.                                  *)
(*                                                                         *)
(* A command body has no suspension point before it returns (clone awaits  *)
(* only its own recursive call, cut awaits only clone), so each command is *)
(* one action, followed by the step that hands its Result to the caller.   *)
(* The background task and the external process of a transfer run          *)
(* interleaved, one event at a time.  Transfers share nothing but the file *)
(* system, and the model follows them one at a time: a command is accepted *)
(* when no transfer is in flight.                                          *)
(***************************************************************************)
EXTENDS Integers, Sequences, FiniteSets, TLC

VARIABLES
    windows,   \* cfg!(target_os = "windows") of the build (copy.rs:42)
    fs,        \* the file system: path -> "absent" | "complete"
    procs,     \* the transfers in flight, indexed by handle (1..Len(procs))
    uiOpen,    \* TRUE while app.emit can deliver to the UI
    last,      \* the command call that is returning, and what it returns
    nevents,   \* number of process events produced so far
    dir,       \* the directory handed to list_files
    listing    \* what list_files returned for it

vars == <<windows, fs, procs, uiOpen, last, nevents, dir, listing>>

----------------------------------------------------------------------------
(* Bounds of the model *)

MaxEvents == 3     \* process events produced in one behaviour
MaxEntries == 3    \* entries of a listed directory

----------------------------------------------------------------------------
(* Paths.  A path is its sequence of characters; the first one is the      *)
(* volume it lives on.                                                     *)

\* the literal of format!("{} - Copy", destination)
Suffix == <<" ", "-", " ", "C", "o", "p", "y">>

Ca == <<"C", "a">>
Cb == <<"C", "b">>
Db == <<"D", "b">>

\* the (source, destination) pairs a request may name: the same path, two
\* paths of one volume, two volumes, and a source that is not there
Requests == {<<Ca, Ca>>, <<Ca, Cb>>, <<Ca, Db>>, <<Db, Ca>>}

\* the pairs of the copy requests: a copy does not tell one volume from two
CopyRequests == {<<Ca, Ca>>, <<Ca, Cb>>, <<Db, Ca>>}

\* every path a command or the tool can touch
FsPaths == {Ca, Cb, Db, Ca \o Suffix}

Volume(p) == p[1]

----------------------------------------------------------------------------
(* Process events (tauri_plugin_shell::process::CommandEvent)              *)

\* Option<i32> of TerminatedPayload.code
Some(n) == [some |-> TRUE, val |-> n]
None == [some |-> FALSE, val |-> 0]
ExitCodes == {Some(0), Some(1), None}

\* byte chunks of process output: 97 = 'a', 10 = '\n', 255 is no valid UTF-8
Chunks == {<<97>>, <<255, 10>>}

Stdout(b) == [kind |-> "Stdout", bytes |-> b, code |-> None]
Stderr(b) == [kind |-> "Stderr", bytes |-> b, code |-> None]
Terminated(c) == [kind |-> "Terminated", bytes |-> <<>>, code |-> c]
Error == [kind |-> "Error", bytes |-> <<>>, code |-> None]

\* String::from_utf8_lossy: valid bytes decode to their character, an
\* invalid byte becomes U+FFFD
LossyChar(b) ==
    IF b = 97 THEN "a" ELSE IF b = 10 THEN "\n" ELSE "U+FFFD"

from_utf8_lossy(bytes) == [i \in 1..Len(bytes) |-> LossyChar(bytes[i])]

----------------------------------------------------------------------------
(* Spawned transfers *)

\* what sidecar_command.spawn() hands back: the event receiver rx (stream,
\* closed, pos) and the child handle (childOwned), plus the state of the
\* background task reading rx (task)
NewProc(tool, source, destination, viaCut) ==
    [tool |-> tool, source |-> source, dest |-> destination, viaCut |-> viaCut,
     stream |-> <<>>, closed |-> FALSE, pos |-> 0,
     task |-> "reading", childOwned |-> TRUE, emitted |-> <<>>,
     srcRemoved |-> FALSE]

Handles == 1..Len(procs)

HasKind(stream, k) == \E i \in 1..Len(stream) : stream[i].kind = k

NoCall ==
    [cmd |-> "none", source |-> <<>>, dest |-> <<>>, result |-> "none",
     handle |-> 0, renames |-> 0, renamed |-> FALSE, removeTried |-> FALSE,
     removed |-> FALSE, existed |-> FALSE]

\* the UI issues one transfer at a time: a command is accepted when the
\* previous call has returned and no transfer is in flight
Idle == last = NoCall /\ procs = <<>>

----------------------------------------------------------------------------
(* clone (funcs/copy.rs) *)

\* CollisionCheck without the same-path branch (lines 10-14 left out): the
\* destination goes to the tool as requested
CollisionCheckNoRename(files, source, destination, renames) ==
    IF files[source] = "absent"
    THEN [result |-> "SourceNotFound", dest |-> destination, renames |-> renames]
    ELSE [result |-> "Spawning", dest |-> destination, renames |-> renames]

\* CollisionCheck re-entered with a destination that collides again: the
\* suffix is appended a second time before the check lets the call through
CollisionCheckRenamesAgain(files, source, destination, renames) ==
    IF files[source] = "absent"
    THEN [result |-> "SourceNotFound", dest |-> destination, renames |-> renames]
    ELSE IF source = destination
         THEN [result |-> "Spawning", dest |-> destination \o Suffix,
               renames |-> renames + 2]
         ELSE [result |-> "Spawning", dest |-> destination, renames |-> renames]

\* lines 6-14: the existence check and the same-path rename, re-entered
\* through the recursive call with the renamed destination
RECURSIVE CollisionCheck(_, _, _, _)
CollisionCheck(files, source, destination, renames) ==
    IF files[source] = "absent"
    THEN [result |-> "SourceNotFound", dest |-> destination, renames |-> renames]
    ELSE IF source = destination
         THEN CollisionCheck(files, source, destination \o Suffix, renames + 1)
         ELSE [result |-> "Spawning", dest |-> destination, renames |-> renames]

\* lines 5-35: the whole call.  sidecarOk: the sidecar binary resolves;
\* spawnOk: the OS starts the process.  The result names what the call
\* returns, the transfers after it and the handle it created (0: none).
\* _child is a local of clone: it is dropped when clone returns, while the
\* background task keeps only rx.
clone(files, ps, source, destination, viaCut, sidecarOk, spawnOk) ==
    LET c == CollisionCheck(files, source, destination, 0) IN
    IF c.result = "SourceNotFound"
    THEN [result |-> "SourceNotFound", procs |-> ps, handle |-> 0,
          renames |-> c.renames]
    ELSE IF ~sidecarOk
    THEN [result |-> "Panic", procs |-> ps, handle |-> 0, renames |-> c.renames]
    ELSE IF ~spawnOk
    THEN [result |-> "SpawnError", procs |-> ps, handle |-> 0,
          renames |-> c.renames]
    ELSE [result |-> "Ok",
          procs |-> Append(ps, [NewProc("rclone", source, c.dest, viaCut)
                                  EXCEPT !.childOwned = FALSE]),
          handle |-> Len(ps) + 1, renames |-> c.renames]

Clone(source, destination, sidecarOk, spawnOk) ==
    /\ Idle
    /\ LET r == clone(fs, procs, source, destination, FALSE, sidecarOk, spawnOk) IN
        /\ procs' = r.procs
        /\ last' = [NoCall EXCEPT !.cmd = "clone", !.source = source,
                                  !.dest = destination, !.result = r.result,
                                  !.handle = r.handle, !.renames = r.renames,
                                  !.existed = (fs[source] # "absent")]
    /\ UNCHANGED <<dir, listing, windows, fs, uiOpen, nevents>>

----------------------------------------------------------------------------
(* cut (funcs/copy.rs) *)

\* fs::rename (line 39): fails when the source is missing, when the two
\* paths are on different volumes, or when the OS refuses it
RenameOk(files, source, destination, refused) ==
    /\ files[source] # "absent"
    /\ Volume(source) = Volume(destination)
    /\ ~refused

Rename(files, source, destination) ==
    IF source = destination THEN files
    ELSE [files EXCEPT ![destination] = files[source], ![source] = "absent"]

\* fs::remove_file (line 46)
RemoveOk(files, source, refused) == files[source] # "absent" /\ ~refused

\* cut with the copy and delete of lines 45-47 taken when the rename fails
\* on an existing source, as the comment of lines 43-44 describes it
cutFallsBackOnRenameError(files, ps, win, source, destination, os) ==
    IF RenameOk(files, source, destination, os.renameRefused)
    THEN [result |-> "Ok", fs |-> Rename(files, source, destination),
          procs |-> ps, handle |-> 0, renames |-> 0, renamed |-> TRUE,
          removeTried |-> FALSE, removed |-> FALSE]
    ELSE LET r == clone(files, ps, source, destination, TRUE,
                        os.sidecarOk, os.spawnOk) IN
    IF r.result # "Ok"
    THEN [result |-> r.result, fs |-> files, procs |-> r.procs,
          handle |-> r.handle, renames |-> r.renames, renamed |-> FALSE,
          removeTried |-> FALSE, removed |-> FALSE]
    ELSE IF ~RemoveOk(files, source, os.removeRefused)
    THEN [result |-> "DeleteError", fs |-> files, procs |-> r.procs,
          handle |-> r.handle, renames |-> r.renames, renamed |-> FALSE,
          removeTried |-> TRUE, removed |-> FALSE]
    ELSE [result |-> "Ok", fs |-> [files EXCEPT ![source] = "absent"],
          procs |-> [r.procs EXCEPT ![r.handle].srcRemoved = TRUE],
          handle |-> r.handle, renames |-> r.renames, renamed |-> FALSE,
          removeTried |-> TRUE, removed |-> TRUE]

\* lines 38-50: what cut returns and leaves behind.  os tells what the
\* platform does with each request of the call: renameRefused, sidecarOk,
\* spawnOk, removeRefused.
cut(files, ps, win, source, destination, os) ==
    IF ~RenameOk(files, source, destination, os.renameRefused)
    THEN [result |-> "RenameError", fs |-> files, procs |-> ps, handle |-> 0,
          renames |-> 0, renamed |-> FALSE, removeTried |-> FALSE,
          removed |-> FALSE]
    ELSE LET moved == Rename(files, source, destination) IN
    IF ~win
    THEN [result |-> "Ok", fs |-> moved, procs |-> ps, handle |-> 0,
          renames |-> 0, renamed |-> TRUE, removeTried |-> FALSE,
          removed |-> FALSE]
    ELSE LET r == clone(moved, ps, source, destination, TRUE,
                        os.sidecarOk, os.spawnOk) IN
    IF r.result # "Ok"
    THEN [result |-> r.result, fs |-> moved, procs |-> r.procs,
          handle |-> r.handle, renames |-> r.renames, renamed |-> TRUE,
          removeTried |-> FALSE, removed |-> FALSE]
    ELSE IF ~RemoveOk(moved, source, os.removeRefused)
    THEN [result |-> "DeleteError", fs |-> moved, procs |-> r.procs,
          handle |-> r.handle, renames |-> r.renames, renamed |-> TRUE,
          removeTried |-> TRUE, removed |-> FALSE]
    ELSE [result |-> "Ok", fs |-> [moved EXCEPT ![source] = "absent"],
          procs |-> [r.procs EXCEPT ![r.handle].srcRemoved = TRUE],
          handle |-> r.handle, renames |-> r.renames, renamed |-> TRUE,
          removeTried |-> TRUE, removed |-> TRUE]

Cut(source, destination, renameRefused, sidecarOk, spawnOk, removeRefused) ==
    /\ Idle
    /\ LET r == cut(fs, procs, windows, source, destination,
                    [renameRefused |-> renameRefused, sidecarOk |-> sidecarOk,
                     spawnOk |-> spawnOk, removeRefused |-> removeRefused]) IN
        /\ fs' = r.fs
        /\ procs' = r.procs
        /\ last' = [NoCall EXCEPT !.cmd = "cut", !.source = source,
                                  !.dest = destination, !.result = r.result,
                                  !.handle = r.handle, !.renames = r.renames,
                                  !.renamed = r.renamed,
                                  !.removeTried = r.removeTried,
                                  !.removed = r.removed,
                                  !.existed = (fs[source] # "absent")]
    /\ UNCHANGED <<dir, listing, windows, uiOpen, nevents>>

----------------------------------------------------------------------------
(* transfer_file (lib.rs) *)

\* lines 5-62: no check of the source; the sidecar and the spawn may fail
\* with an error value; the child handle moves into the background task
transfer_file(ps, source, destination, sidecarOk, spawnOk) ==
    IF ~sidecarOk
    THEN [result |-> "SidecarError", procs |-> ps, handle |-> 0]
    ELSE IF ~spawnOk
    THEN [result |-> "SpawnError", procs |-> ps, handle |-> 0]
    ELSE [result |-> "Ok",
          procs |-> Append(ps, NewProc("rsync", source, destination, FALSE)),
          handle |-> Len(ps) + 1]

TransferFile(source, destination, sidecarOk, spawnOk) ==
    /\ Idle
    /\ LET r == transfer_file(procs, source, destination, sidecarOk, spawnOk) IN
        /\ procs' = r.procs
        /\ last' = [NoCall EXCEPT !.cmd = "transfer_file", !.source = source,
                                  !.dest = destination, !.result = r.result,
                                  !.handle = r.handle,
                                  !.existed = (fs[source] # "absent")]
    /\ UNCHANGED <<dir, listing, windows, fs, uiOpen, nevents>>

----------------------------------------------------------------------------
(* The background tasks *)

\* app.emit(name, payload): delivered only while the UI can receive
Emit(name, text, code, detail, open) ==
    [name |-> name, text |-> text, code |-> code, detail |-> detail,
     delivered |-> open]

\* RsyncOnEvent with the exit code ignored: every Terminated event is
\* reported as completion
RsyncOnEventAnyExitCompletes(p, ev, open) ==
    LET q == [p EXCEPT !.pos = p.pos + 1]
        stop(e) == [q EXCEPT !.emitted = Append(p.emitted, e),
                             !.task = "done", !.childOwned = FALSE]
    IN
    CASE ev.kind = "Stdout" ->
           [q EXCEPT !.emitted = Append(p.emitted,
                Emit("rsync-output", from_utf8_lossy(ev.bytes), None, "", open))]
      [] ev.kind = "Stderr" ->
           [q EXCEPT !.emitted = Append(p.emitted,
                Emit("rsync-error", from_utf8_lossy(ev.bytes), None, "", open))]
      [] ev.kind = "Terminated" ->
           stop(Emit("rsync-complete", <<>>, None, "", open))
      [] ev.kind = "Error" ->
           stop(Emit("rsync-failed", <<>>, None, "process error", open))

\* RsyncOnEvent without the two break statements: the loop goes on reading
\* after a terminal event
RsyncOnEventNoBreak(p, ev, open) ==
    LET q == [p EXCEPT !.pos = p.pos + 1]
        go(e) == [q EXCEPT !.emitted = Append(p.emitted, e)]
    IN
    CASE ev.kind = "Stdout" ->
           go(Emit("rsync-output", from_utf8_lossy(ev.bytes), None, "", open))
      [] ev.kind = "Stderr" ->
           go(Emit("rsync-error", from_utf8_lossy(ev.bytes), None, "", open))
      [] ev.kind = "Terminated" ->
           IF ev.code = Some(0)
           THEN go(Emit("rsync-complete", <<>>, None, "", open))
           ELSE go(Emit("rsync-failed", <<>>, ev.code, "exit code", open))
      [] ev.kind = "Error" ->
           go(Emit("rsync-failed", <<>>, None, "process error", open))

\* RsyncOnEvent with the result of app.emit propagated (emit(..)? in place
\* of if let Err): a failed delivery of an output or error line ends the task
RsyncOnEventStopsOnEmitError(p, ev, open) ==
    LET q == [p EXCEPT !.pos = p.pos + 1]
        stop(e) == [q EXCEPT !.emitted = Append(p.emitted, e),
                             !.task = "done", !.childOwned = FALSE]
        line(e) == IF open THEN [q EXCEPT !.emitted = Append(p.emitted, e)]
                   ELSE stop(e)
    IN
    CASE ev.kind = "Stdout" ->
           line(Emit("rsync-output", from_utf8_lossy(ev.bytes), None, "", open))
      [] ev.kind = "Stderr" ->
           line(Emit("rsync-error", from_utf8_lossy(ev.bytes), None, "", open))
      [] ev.kind = "Terminated" ->
           IF ev.code = Some(0)
           THEN stop(Emit("rsync-complete", <<>>, None, "", open))
           ELSE stop(Emit("rsync-failed", <<>>, ev.code, "exit code", open))
      [] ev.kind = "Error" ->
           stop(Emit("rsync-failed", <<>>, None, "process error", open))

\* RsyncOnEvent with a missing exit code read as 0
\* (payload.code.unwrap_or(0) == 0 in place of payload.code == Some(0))
RsyncOnEventNoCodeCompletes(p, ev, open) ==
    LET q == [p EXCEPT !.pos = p.pos + 1]
        stop(e) == [q EXCEPT !.emitted = Append(p.emitted, e),
                             !.task = "done", !.childOwned = FALSE]
    IN
    CASE ev.kind = "Stdout" ->
           [q EXCEPT !.emitted = Append(p.emitted,
                Emit("rsync-output", from_utf8_lossy(ev.bytes), None, "", open))]
      [] ev.kind = "Stderr" ->
           [q EXCEPT !.emitted = Append(p.emitted,
                Emit("rsync-error", from_utf8_lossy(ev.bytes), None, "", open))]
      [] ev.kind = "Terminated" ->
           IF ev.code = Some(0) \/ ev.code = None
           THEN stop(Emit("rsync-complete", <<>>, None, "", open))
           ELSE stop(Emit("rsync-failed", <<>>, ev.code, "exit code", open))
      [] ev.kind = "Error" ->
           stop(Emit("rsync-failed", <<>>, None, "process error", open))

\* RsyncOnEvent without the break of the Error arm (lib.rs:54): the loop
\* goes on reading after a supervisor error
RsyncOnEventErrorContinues(p, ev, open) ==
    LET q == [p EXCEPT !.pos = p.pos + 1]
        stop(e) == [q EXCEPT !.emitted = Append(p.emitted, e),
                             !.task = "done", !.childOwned = FALSE]
    IN
    CASE ev.kind = "Stdout" ->
           [q EXCEPT !.emitted = Append(p.emitted,
                Emit("rsync-output", from_utf8_lossy(ev.bytes), None, "", open))]
      [] ev.kind = "Stderr" ->
           [q EXCEPT !.emitted = Append(p.emitted,
                Emit("rsync-error", from_utf8_lossy(ev.bytes), None, "", open))]
      [] ev.kind = "Terminated" ->
           IF ev.code = Some(0)
           THEN stop(Emit("rsync-complete", <<>>, None, "", open))
           ELSE stop(Emit("rsync-failed", <<>>, ev.code, "exit code", open))
      [] ev.kind = "Error" ->
           [q EXCEPT !.emitted = Append(p.emitted,
                Emit("rsync-failed", <<>>, None, "process error", open))]

\* lib.rs:27-58, one turn of the loop of transfer_file's task on event ev.
\* break ends the task: the child guard and rx are dropped with it.
RsyncOnEvent(p, ev, open) ==
    LET q == [p EXCEPT !.pos = p.pos + 1]
        stop(e) == [q EXCEPT !.emitted = Append(p.emitted, e),
                             !.task = "done", !.childOwned = FALSE]
    IN
    CASE ev.kind = "Stdout" ->
           [q EXCEPT !.emitted = Append(p.emitted,
                Emit("rsync-output", from_utf8_lossy(ev.bytes), None, "", open))]
      [] ev.kind = "Stderr" ->
           [q EXCEPT !.emitted = Append(p.emitted,
                Emit("rsync-error", from_utf8_lossy(ev.bytes), None, "", open))]
      [] ev.kind = "Terminated" ->
           IF ev.code = Some(0)
           THEN stop(Emit("rsync-complete", <<>>, None, "", open))
           ELSE stop(Emit("rsync-failed", <<>>, ev.code, "exit code", open))
      [] ev.kind = "Error" ->
           stop(Emit("rsync-failed", <<>>, None, "process error", open))

\* copy.rs:27-31, one turn of the loop of clone's task: a Stdout chunk is
\* printed to the console, every other event is dropped; nothing is emitted
RcloneOnEvent(p, ev, open) == [p EXCEPT !.pos = p.pos + 1]

\* rx.recv().await yields the next event
TaskRecv(h) ==
    /\ h \in Handles
    /\ last = NoCall
    /\ procs[h].task = "reading"
    /\ procs[h].pos < Len(procs[h].stream)
    /\ LET p == procs[h]
           ev == p.stream[p.pos + 1]
       IN procs' = [procs EXCEPT ![h] =
                      IF p.tool = "rsync" THEN RsyncOnEvent(p, ev, uiOpen)
                                          ELSE RcloneOnEvent(p, ev, uiOpen)]
    /\ UNCHANGED <<dir, listing, windows, fs, uiOpen, last, nevents>>

\* rx.recv().await yields None: the stream is closed and drained, the loop
\* and the task end, and what the task owns is dropped
TaskEnd(h) ==
    /\ h \in Handles
    /\ last = NoCall
    /\ procs[h].task = "reading"
    /\ procs[h].closed
    /\ procs[h].pos = Len(procs[h].stream)
    /\ procs' = [procs EXCEPT ![h].task = "done", ![h].childOwned = FALSE]
    /\ UNCHANGED <<dir, listing, windows, fs, uiOpen, last, nevents>>

\* the task has ended and dropped rx (and, in transfer_file, the child
\* guard): the transfer is gone
Reap(h) ==
    /\ h \in Handles
    /\ last = NoCall
    /\ procs[h].task = "done"
    /\ procs' = SubSeq(procs, 1, h - 1) \o SubSeq(procs, h + 1, Len(procs))
    /\ UNCHANGED <<dir, listing, windows, fs, uiOpen, last, nevents>>

----------------------------------------------------------------------------
(* The environment: the external tool, its supervisor, the UI *)

\* the supervisor sends one event into the stream.  The process terminates
\* once; it can terminate with code 0 only if it could read the source, and
\* it has then put the whole copy at its destination (the tool writes to a
\* temporary name and moves the file in place at the end); it can fail, or
\* be killed, whether the source is there or not.  No order among the other
\* events is assumed.  Events sent after the receiver is gone are lost.
ProcEvent(h, ev) ==
    /\ h \in Handles
    /\ last = NoCall
    /\ nevents < MaxEvents
    /\ LET p == procs[h] IN
        /\ ~p.closed
        /\ p.task = "reading"
        /\ ev.kind = "Terminated" =>
             /\ ~HasKind(p.stream, "Terminated")
             /\ ev.code = Some(0) => fs[p.source] = "complete"
        /\ procs' = [procs EXCEPT ![h].stream = Append(p.stream, ev)]
        /\ fs' = IF ev = Terminated(Some(0))
                 THEN [fs EXCEPT ![p.dest] = "complete"]
                 ELSE fs
    /\ nevents' = nevents + 1
    /\ UNCHANGED <<dir, listing, windows, uiOpen, last>>

\* the supervisor's senders are gone: the stream closes (of no effect once
\* the receiver is gone)
ProcClose(h) ==
    /\ h \in Handles
    /\ last = NoCall
    /\ ~procs[h].closed
    /\ procs[h].task = "reading"
    /\ HasKind(procs[h].stream, "Terminated") \/ HasKind(procs[h].stream, "Error")
    /\ procs' = [procs EXCEPT ![h].closed = TRUE]
    /\ UNCHANGED <<dir, listing, windows, fs, uiOpen, last, nevents>>

\* the UI stops receiving: app.emit returns an error from now on.  Only the
\* task of transfer_file emits, so the step is taken while one is reading.
CloseUI ==
    /\ last = NoCall
    /\ uiOpen
    /\ \E h \in Handles : procs[h].tool = "rsync" /\ procs[h].task = "reading"
    /\ uiOpen' = FALSE
    /\ UNCHANGED <<dir, listing, windows, fs, procs, last, nevents>>

\* the caller receives the Result of the command it invoked.  A command body
\* runs to its return without suspending, so nothing else happens between
\* the call and this step.
Return ==
    /\ last # NoCall
    /\ last' = NoCall
    /\ UNCHANGED <<dir, listing, windows, fs, procs, uiOpen, nevents>>

Events ==
    {Stdout(b) : b \in Chunks} \cup {Stderr(b) : b \in Chunks}
        \cup {Terminated(c) : c \in ExitCodes} \cup {Error}

----------------------------------------------------------------------------
(* list_files (funcs/files.rs) *)

\* str::to_lowercase on the code points of a name: A-Z become a-z
to_lowercase(name) ==
    [i \in 1..Len(name) |->
        IF name[i] >= 65 /\ name[i] <= 90 THEN name[i] + 32 ELSE name[i]]

\* Ord::cmp of two strings: code point by code point, a prefix first
RECURSIVE cmp(_, _)
cmp(a, b) ==
    IF a = <<>> /\ b = <<>> THEN "Equal"
    ELSE IF a = <<>> THEN "Less"
    ELSE IF b = <<>> THEN "Greater"
    ELSE IF Head(a) < Head(b) THEN "Less"
    ELSE IF Head(a) > Head(b) THEN "Greater"
    ELSE cmp(Tail(a), Tail(b))

\* the comparator with the names compared as they are (to_lowercase left
\* out)
CompareCaseSensitive(a, b) ==
    IF a.is_dir /\ ~b.is_dir THEN "Less"
    ELSE IF ~a.is_dir /\ b.is_dir THEN "Greater"
    ELSE cmp(a.name, b.name)

\* lines 65-69: the comparator handed to sort_by
Compare(a, b) ==
    IF a.is_dir /\ ~b.is_dir THEN "Less"
    ELSE IF ~a.is_dir /\ b.is_dir THEN "Greater"
    ELSE cmp(to_lowercase(a.name), to_lowercase(b.name))

\* Vec::sort_by is a stable sort: an entry goes behind every entry that
\* does not compare Greater than it
RECURSIVE InsertSorted(_, _)
InsertSorted(sorted, e) ==
    IF sorted = <<>> THEN <<e>>
    ELSE IF Compare(Head(sorted), e) = "Greater" THEN <<e>> \o sorted
    ELSE <<Head(sorted)>> \o InsertSorted(Tail(sorted), e)

RECURSIVE sort_by(_)
sort_by(entries) ==
    IF entries = <<>> THEN <<>>
    ELSE InsertSorted(sort_by(SubSeq(entries, 1, Len(entries) - 1)),
                      entries[Len(entries)])

\* lines 30-59: the entries read_dir yields, in its order.  An entry that
\* cannot be read is skipped; an entry without metadata is listed as a
\* file (is_dir false).  path, size and modified are carried along by the
\* code and play no part in the order.
RECURSIVE Collect(_)
Collect(des) ==
    IF des = <<>> THEN <<>>
    ELSE IF Head(des).state = "error" THEN Collect(Tail(des))
    ELSE <<[name |-> Head(des).name,
            is_dir |-> (Head(des).state = "ok" /\ Head(des).kind = "dir")]>>
         \o Collect(Tail(des))

\* lines 15-72
list_files(d) ==
    IF ~d.exists THEN [result |-> "PathNotFound", entries |-> <<>>]
    ELSE IF ~d.isDir THEN [result |-> "NotADirectory", entries |-> <<>>]
    ELSE IF ~d.readable THEN [result |-> "ReadDirFailed", entries |-> <<>>]
    ELSE [result |-> "Ok", entries |-> sort_by(Collect(d.entries))]

NotListed == [result |-> "none", entries |-> <<>>]

NoDir == [exists |-> FALSE, isDir |-> FALSE, readable |-> FALSE,
          entries |-> <<>>]

ListFiles ==
    /\ listing = NotListed
    /\ listing' = list_files(dir)
    /\ UNCHANGED <<windows, fs, procs, uiOpen, last, nevents, dir>>

\* the file names of the listed directories: "A", "a", "b", "Ba"
FileNames == {<<65>>, <<97>>, <<98>>, <<66, 97>>}

\* what read_dir can yield for one name
DirEntries ==
    [name : FileNames, kind : {"dir", "file"}, state : {"ok", "nometa", "error"}]

\* a directory holds a name once
DistinctNames(des) ==
    \A i, j \in 1..Len(des) : des[i].name = des[j].name => i = j

Directories ==
    {[exists |-> TRUE, isDir |-> TRUE, readable |-> TRUE, entries |-> des] :
        des \in {x \in UNION {[1..n -> DirEntries] : n \in 0..MaxEntries} :
                    DistinctNames(x)}}

DirInputs ==
    Directories \cup
        {NoDir, [NoDir EXCEPT !.exists = TRUE],
         [NoDir EXCEPT !.exists = TRUE, !.isDir = TRUE]}

----------------------------------------------------------------------------
(* The specification *)

Init ==
    /\ windows \in BOOLEAN
    /\ fs = [p \in FsPaths |-> IF p = Ca THEN "complete" ELSE "absent"]
    /\ procs = <<>>
    /\ uiOpen = TRUE
    /\ last = NoCall
    /\ nevents = 0
    /\ dir = NoDir
    /\ listing = NotListed

Next ==
    \/ \E r \in CopyRequests, sidecarOk, spawnOk \in BOOLEAN :
            Clone(r[1], r[2], sidecarOk, spawnOk)
    \/ \E r \in CopyRequests, sidecarOk, spawnOk \in BOOLEAN :
            TransferFile(r[1], r[2], sidecarOk, spawnOk)
    \/ \E r \in Requests,
          renameRefused, sidecarOk, spawnOk, removeRefused \in BOOLEAN :
            Cut(r[1], r[2], renameRefused, sidecarOk, spawnOk, removeRefused)
    \/ \E h \in Handles : TaskRecv(h)
    \/ \E h \in Handles : TaskEnd(h)
    \/ \E h \in Handles : Reap(h)
    \/ \E h \in Handles, ev \in Events : ProcEvent(h, ev)
    \/ \E h \in Handles : ProcClose(h)
    \/ CloseUI
    \/ Return

Spec == Init /\ [][Next]_vars

\* list_files alone, on every directory of the bound
InitList ==
    /\ windows = FALSE
    /\ fs = [p \in FsPaths |-> "absent"]
    /\ procs = <<>>
    /\ uiOpen = TRUE
    /\ last = NoCall
    /\ nevents = 0
    /\ dir \in DirInputs
    /\ listing = NotListed

NextList == ListFiles

SpecList == InitList /\ [][NextList]_vars

----------------------------------------------------------------------------
(* Vocabulary of the properties *)

\* the events with one of the given names among those emitted to the UI
Named(emitted, names) == SelectSeq(emitted, LAMBDA e : e.name \in names)

TerminalNames == {"rsync-complete", "rsync-failed"}

\* a Terminated event with a nonzero exit code
NonzeroExit(ev) == ev.kind = "Terminated" /\ ev.code.some /\ ev.code.val # 0

\* a post-spawn failure: the process ended other than with code 0, or the
\* supervisor reported an error
PostSpawnFailure(ev) ==
    \/ ev.kind = "Terminated" /\ ev.code # Some(0)
    \/ ev.kind = "Error"

\* the emitted event e is the republication of the process event ev
Republishes(e, ev) ==
    CASE ev.kind = "Stdout" ->
            e.name = "rsync-output" /\ e.text = from_utf8_lossy(ev.bytes)
      [] ev.kind = "Stderr" ->
            e.name = "rsync-error" /\ e.text = from_utf8_lossy(ev.bytes)
      [] ev.kind = "Terminated" ->
            IF ev.code = Some(0) THEN e.name = "rsync-complete"
            ELSE e.name = "rsync-failed" /\ e.code = ev.code
      [] ev.kind = "Error" -> e.name = "rsync-failed"

----------------------------------------------------------------------------
(* C1.  In the move fallback the source is deleted only after the copy      *)
(* subprocess has reported successful termination: whenever cut has         *)
(* removed the source of the copy it started, that copy's stream holds      *)
(* Terminated with exit code 0.                                             *)
C1_DeleteOnlyAfterCopySuccess ==
    \A h \in Handles :
        procs[h].srcRemoved =>
            \E i \in 1..Len(procs[h].stream) :
                procs[h].stream[i] = Terminated(Some(0))

(* C2.  A transfer request (clone, cut or transfer_file) whose source does  *)
(* not exist at request time spawns no process and returns an error to     *)
(* the caller synchronously.  (Any error value is taken as the report of    *)
(* the missing source, so that only a call that goes on to spawn, or        *)
(* returns Ok, breaks the statement.)                                       *)
C2_MissingSourceSpawnsNothing ==
    (last # NoCall /\ ~last.existed) =>
        /\ last.handle = 0
        /\ last.result # "Ok"

(* C3.  A copy request with source = destination and an existing source     *)
(* leaves the source as it is, and the destination handed to the tool is    *)
(* the original destination with the suffix appended exactly once; while    *)
(* that copy is in flight the source stays as it is.                        *)
C3_SamePathCopyStep ==
    /\ (last = NoCall /\ last'.cmd = "clone" /\ last'.source = last'.dest
            /\ last'.existed) =>
        /\ fs'[last'.source] = fs[last'.source]
        /\ last'.renames = 1
        /\ last'.handle # 0 =>
              /\ procs'[last'.handle].source = last'.source
              /\ procs'[last'.handle].dest = last'.dest \o Suffix
    /\ \A h \in Handles :
          (procs[h].tool = "rclone" /\ ~procs[h].viaCut) =>
              fs'[procs[h].source] = fs[procs[h].source]

C3_SamePathCopy == [][C3_SamePathCopyStep]_vars

C3_Witness ==
    /\ last.cmd = "clone" /\ last.source = last.dest /\ last.result = "Ok"
    /\ last.handle \in Handles
    /\ procs[last.handle].dest = last.dest \o Suffix

(* C4.  A move whose in-process rename succeeds is complete by that rename  *)
(* alone, on every platform: cut returns Ok, spawns no process and          *)
(* attempts no delete of the source.                                        *)
C4_RenameAloneCompletes ==
    (last.cmd = "cut" /\ last.renamed) =>
        /\ last.result = "Ok"
        /\ last.handle = 0
        /\ ~last.removeTried

(* C5.  When the rename of a move fails because source and destination are  *)
(* on different volumes, cut does not return the rename error: it falls     *)
(* back to the copy through clone.                                          *)
C5_CrossVolumeFallsBack ==
    (last.cmd = "cut" /\ last.existed
        /\ Volume(last.source) # Volume(last.dest)) =>
        last.result # "RenameError"

(* C6.  For every spawned transfer whose process terminated with exit code  *)
(* 0 (the task has taken Terminated(0) from the stream), exactly one        *)
(* completion event has been emitted for the handle and it is the last      *)
(* event emitted for it, whatever the stream still holds.                   *)
C6_ExitZeroCompletesOnce ==
    \A h \in Handles :
        (\E i \in 1..procs[h].pos : procs[h].stream[i] = Terminated(Some(0))) =>
            /\ Len(Named(procs[h].emitted, {"rsync-complete"})) = 1
            /\ procs[h].emitted[Len(procs[h].emitted)].name = "rsync-complete"
            /\ procs[h].task = "done"

C8_OrderedUntilTerminal ==
    \A h \in Handles :
        procs[h].tool = "rsync" =>
            LET em == procs[h].emitted IN
            /\ Len(em) = procs[h].pos
            /\ \A i \in 1..Len(em) : Republishes(em[i], procs[h].stream[i])
            /\ \A i \in 1..Len(em) :
                  em[i].name \in TerminalNames =>
                      i = Len(em) /\ procs[h].task = "done"

C8_Witness ==
    \E h \in Handles :
        /\ procs[h].tool = "rsync"
        /\ procs[h].task = "done"
        /\ Len(procs[h].emitted) = 2
        /\ procs[h].emitted[1].delivered
        /\ procs[h].emitted[2].name \in TerminalNames
        /\ Len(procs[h].stream) > procs[h].pos

(* C9.  In every spawned transfer the child process handle stays owned      *)
(* while the background task is still reading the process's events.         *)
C9_ChildOwnedWhileReading ==
    \A h \in Handles : procs[h].task = "reading" => procs[h].childOwned

(* C10.  Every post-spawn failure a task has taken from the stream (a       *)
(* termination other than exit code 0, or a supervisor error) has been      *)
(* delivered as a failure event for the handle, for transfer_file and       *)
(* clone alike.                                                             *)
C10_FailuresReported ==
    \A h \in Handles :
        \A i \in 1..procs[h].pos :
            PostSpawnFailure(procs[h].stream[i]) =>
                Len(Named(procs[h].emitted, {"rsync-failed"})) >= 1

(* C11.  A request whose sidecar binary cannot be resolved, or whose        *)
(* process the OS refuses to start, returns an error value and starts no    *)
(* process; no call of clone, cut or transfer_file ends in a panic.         *)
C11_SpawnFailureIsAnError ==
    /\ last.result # "Panic"
    /\ last.result \in {"SidecarError", "SpawnError"} => last.handle = 0

(* C12.  The collision check of a copy request terminates: for an existing  *)
(* source clone re-enters the check at most once, exactly when source and   *)
(* destination are the same path, and then goes on to spawning (the call    *)
(* ends with the outcome of the spawn, and a spawned copy has a             *)
(* destination other than its source).                                      *)
C12_CollisionCheckTerminates ==
    (last.cmd = "clone" /\ last.existed) =>
        /\ last.renames = (IF last.source = last.dest THEN 1 ELSE 0)
        /\ last.result \in {"Ok", "Panic", "SpawnError"}
        /\ last.handle # 0 =>
              procs[last.handle].dest # procs[last.handle].source

C12_Witness ==
    /\ last.cmd = "clone" /\ last.existed
    /\ last.renames = 1
    /\ last.result = "SpawnError"

----------------------------------------------------------------------------
(* C13 *)

\* the task of transfer_file run on the events es with every delivery
\* succeeding
RECURSIVE AllDelivered(_, _)
AllDelivered(p, es) ==
    IF es = <<>> THEN p
    ELSE AllDelivered(RsyncOnEvent(p, Head(es), TRUE), Tail(es))

Names(emitted) == [i \in 1..Len(emitted) |-> emitted[i].name]

(* C13.  A failed delivery does not change the state machine of a transfer  *)
(* of transfer_file: after any deliveries, failed or not, the task has      *)
(* consumed the events it would have consumed, has emitted the events it    *)
(* would have emitted and is in the state it would be in with every         *)
(* delivery succeeding (a task that has ended without a terminal event has  *)
(* drained a closed stream).                                                *)
C13_DeliveryFailureChangesNothing ==
    \A h \in Handles :
        procs[h].tool = "rsync" =>
            LET p == procs[h]
                fresh == [p EXCEPT !.pos = 0, !.emitted = <<>>,
                                   !.task = "reading", !.childOwned = TRUE]
                q == AllDelivered(fresh, SubSeq(p.stream, 1, p.pos))
            IN
            /\ q.pos = p.pos
            /\ Names(q.emitted) = Names(p.emitted)
            /\ q.task = "done" => p.task = "done"
            /\ (p.task = "done" /\ q.task = "reading") =>
                  p.closed /\ p.pos = Len(p.stream)

C13_Witness ==
    \E h \in Handles :
        /\ procs[h].tool = "rsync"
        /\ procs[h].task = "done"
        /\ Len(procs[h].emitted) = 3
        /\ ~procs[h].emitted[1].delivered
        /\ procs[h].emitted[3].name = "rsync-complete"

----------------------------------------------------------------------------
(* C14 *)

\* the names of a group in case-insensitive order
CaseInsensitiveLeq(a, b) == cmp(to_lowercase(a), to_lowercase(b)) # "Greater"

\* the entries of the directory that can be read, as a bag of names
Readable(des) == SelectSeq(des, LAMBDA e : e.state # "error")

(* C14.  list_files returns every readable entry once, all directories      *)
(* before all non-directories, and within each group in case-insensitive    *)
(* name order.                                                              *)
C14_ListingOrder ==
    listing.result = "Ok" =>
        LET es == listing.entries IN
        /\ Len(es) = Len(Readable(dir.entries))
        /\ \A e \in {Readable(dir.entries)[i].name :
                        i \in 1..Len(Readable(dir.entries))} :
              \E i \in 1..Len(es) : es[i].name = e
        /\ \A i, j \in 1..Len(es) :
              i < j =>
                /\ es[j].is_dir => es[i].is_dir
                /\ es[i].is_dir = es[j].is_dir =>
                      CaseInsensitiveLeq(es[i].name, es[j].name)

C14_Witness ==
    /\ listing.result = "Ok"
    /\ Len(listing.entries) = 3
    /\ listing.entries[1] = [name |-> <<65>>, is_dir |-> TRUE]
    /\ listing.entries[2] = [name |-> <<97>>, is_dir |-> FALSE]
    /\ listing.entries[3] = [name |-> <<66, 97>>, is_dir |-> FALSE]
    /\ dir.entries[1].name = <<66, 97>>

----------------------------------------------------------------------------
(* C15.  A supervisor Error taken by the task of transfer_file ends the     *)
(* transfer at once: it is the last event consumed, one failure event (the  *)
(* process error) has been emitted as the last one, the task has stopped,   *)
(* and what the stream holds after it stays unconsumed and unpublished.     *)
C15_ErrorShortCircuits ==
    \A h \in Handles :
        \A i \in 1..procs[h].pos :
            (procs[h].tool = "rsync" /\ procs[h].stream[i].kind = "Error") =>
                LET em == procs[h].emitted IN
                /\ i = procs[h].pos
                /\ procs[h].task = "done"
                /\ Len(em) = i
                /\ em[i].name = "rsync-failed" /\ em[i].detail = "process error"
                /\ Len(Named(em, {"rsync-failed"})) = 1

C15_Witness ==
    \E h \in Handles :
        /\ procs[h].tool = "rsync"
        /\ procs[h].pos = 2
        /\ procs[h].stream[2].kind = "Error"
        /\ Len(procs[h].stream) = 3
        /\ procs[h].task = "done"

\* the number of events of a kind among the first n of a stream
CountKind(stream, n, k) ==
    Cardinality({i \in 1..n : stream[i].kind = k})

(* C16.  Every Stdout and every Stderr chunk a task has taken from the      *)
(* stream has been republished as exactly one event of the matching kind,   *)
(* for transfer_file and for clone.                                         *)
C16_ChunksRepublished ==
    \A h \in Handles :
        LET p == procs[h] IN
        /\ Len(Named(p.emitted, {"rsync-output"}))
              = CountKind(p.stream, p.pos, "Stdout")
        /\ Len(Named(p.emitted, {"rsync-error"}))
              = CountKind(p.stream, p.pos, "Stderr")

\* a chunk that ends a line
EndsLine(bytes) == bytes # <<>> /\ bytes[Len(bytes)] = 10

\* text ends with the characters of tail
EndsWith(text, tail) ==
    /\ Len(text) >= Len(tail)
    /\ SubSeq(text, Len(text) - Len(tail) + 1, Len(text)) = tail

(* C17.  When a line arrives split over two consecutive chunks of one       *)
(* channel (the first does not end a line, the second does), the task of    *)
(* transfer_file has published one event that holds the line up to its      *)
(* end, and no event that holds the first part alone.                       *)
C17_SplitLineReassembled ==
    \A h \in Handles :
        \A i \in 1..(procs[h].pos - 1) :
            LET p == procs[h]
                a == p.stream[i]
                b == p.stream[i + 1]
            IN
            (/\ p.tool = "rsync"
             /\ a.kind \in {"Stdout", "Stderr"} /\ b.kind = a.kind
             /\ ~EndsLine(a.bytes) /\ EndsLine(b.bytes)) =>
                /\ \E k \in 1..Len(p.emitted) :
                      EndsWith(p.emitted[k].text,
                               from_utf8_lossy(a.bytes \o b.bytes))
                /\ ~\E k \in 1..Len(p.emitted) :
                      /\ p.emitted[k].name \in {"rsync-output", "rsync-error"}
                      /\ p.emitted[k].text = from_utf8_lossy(a.bytes)

(* C18.  cut never loses the file: when cut has returned, Ok or Err, for a  *)
(* source that existed, the whole file is at the source path or at the      *)
(* destination path.                                                        *)
C18_CutKeepsTheFile ==
    (last.cmd = "cut" /\ last.existed) =>
        \/ fs[last.source] = "complete"
        \/ fs[last.dest] = "complete"

(* C19.  When the rename of cut fails, cut returns the rename error at once *)
(* and changes nothing: no process is spawned, no delete is attempted, the  *)
(* file system and the transfers are as before the call.                    *)
C19_FailedRenameStep ==
    (last = NoCall /\ last'.cmd = "cut" /\ ~last'.renamed) =>
        /\ last'.result = "RenameError"
        /\ last'.handle = 0
        /\ ~last'.removeTried
        /\ procs' = procs
        /\ fs' = fs

C20_NoCodeIsFailure ==
    \A h \in Handles :
        procs[h].tool = "rsync" =>
            LET em == procs[h].emitted IN
            /\ \A i \in 1..procs[h].pos :
                  procs[h].stream[i] = Terminated(None) =>
                      /\ em[Len(em)].name = "rsync-failed"
                      /\ em[Len(em)].code = None
                      /\ procs[h].task = "done"
                      /\ Len(Named(em, {"rsync-complete"})) = 0
            /\ \A k \in 1..Len(em) :
                  em[k].name = "rsync-complete" =>
                      /\ k <= Len(procs[h].stream)
                      /\ procs[h].stream[k] = Terminated(Some(0))

C20_Witness ==
    \E h \in Handles :
        /\ procs[h].tool = "rsync"
        /\ fs[procs[h].source] = "complete"
        /\ procs[h].pos = 2
        /\ procs[h].stream[2] = Terminated(None)
        /\ procs[h].emitted[2].name = "rsync-failed"

====
